---- MODULE Spec2Model ----
(***************************************************************************)
(* The concurrent FizzBuzz batch programs of the repository:               *)
(*   parallel-if.py / parallel-match.py : parallel_fizz_buzz, a            *)
(*       ThreadPoolExecutor + as_completed collector;                      *)
(*   async.py (two copies)              : async_fizz_buzz, coroutines      *)
(*       handed to asyncio.wait, then iteration over the completed set.    *)
(* Strings are sequences of one-character strings, so that str(), int()    *)
(* and str.isdigit() are computed and not assumed.                         *)
(***************************************************************************)
EXTENDS Integers, Sequences, FiniteSets, TLC

\* ---------------------------------------------------------------- bounds
\* range_start is drawn from -MaxNeg .. MaxStart
MaxNeg == 1
MaxStart == 9
\* a batch holds at most MaxBatch numbers
MaxBatch == 3
\* range_end may lie up to MaxGap below range_start (an empty range)
MaxGap == 2
\* num_workers is drawn from 1 .. MaxWorkers
MaxWorkers == 2
\* the batch call is repeated with the same arguments up to MaxCalls times
MaxCalls == 2
\* the classifier alone is applied to the integers -MaxAbs .. MaxAbs
MaxAbs == 20

\* ------------------------------------------------------- strings (str)
DigitChars == <<"0", "1", "2", "3", "4", "5", "6", "7", "8", "9">>

RECURSIVE StrNat(_)
StrNat(n) ==
    IF n < 10 THEN <<DigitChars[n + 1]>>
    ELSE Append(StrNat(n \div 10), DigitChars[(n % 10) + 1])

\* str(number) of a Python int
str(number) == IF number < 0 THEN <<"-">> \o StrNat(-number) ELSE StrNat(number)

\* x.isdigit(): non-empty and every character a digit ("-1".isdigit() is False)
isdigit(x) ==
    /\ Len(x) > 0
    /\ \A i \in 1..Len(x) : \E d \in 1..10 : x[i] = DigitChars[d]

DigitValue(c) == (CHOOSE d \in 1..10 : DigitChars[d] = c) - 1

RECURSIVE IntOfDigits(_)
IntOfDigits(x) ==
    IF Len(x) = 0 THEN 0
    ELSE 10 * IntOfDigits(SubSeq(x, 1, Len(x) - 1)) + DigitValue(x[Len(x)])

\* int(x), applied by the sort key to strings that passed isdigit()
int(x) == IntOfDigits(x)

FizzBuzzStr == <<"F", "i", "z", "z", "B", "u", "z", "z">>
FizzStr == <<"F", "i", "z", "z">>
BuzzStr == <<"B", "u", "z", "z">>

\* ------------------------------------------------- the per-item classifier
\* if / elif form (parallel-if.py, models/.../async.py)
fizz_buzz_for_number_if(number) ==
    LET is_divisible_by_3 == number % 3 = 0
        is_divisible_by_5 == number % 5 = 0
    IN  IF is_divisible_by_3 /\ is_divisible_by_5 THEN FizzBuzzStr
        ELSE IF is_divisible_by_3 THEN FizzStr
        ELSE IF is_divisible_by_5 THEN BuzzStr
        ELSE str(number)

\* match form whose first case is (True, _)
fizz_buzz_for_number_match_wildcard(number) ==
    LET is_divisible_by_3 == number % 3 = 0
        is_divisible_by_5 == number % 5 = 0
        subject == <<is_divisible_by_3, is_divisible_by_5>>
    IN  CASE subject[1] = TRUE -> FizzStr
          [] subject = <<TRUE, TRUE>> -> FizzBuzzStr
          [] subject = <<FALSE, TRUE>> -> BuzzStr
          [] OTHER -> str(number)

\* match form (parallel-match.py, chatGPT/FizzBuzz/async.py)
fizz_buzz_for_number_match(number) ==
    LET is_divisible_by_3 == number % 3 = 0
        is_divisible_by_5 == number % 5 = 0
        subject == <<is_divisible_by_3, is_divisible_by_5>>
    IN  CASE subject = <<TRUE, TRUE>> -> FizzBuzzStr
          [] subject = <<TRUE, FALSE>> -> FizzStr
          [] subject = <<FALSE, TRUE>> -> BuzzStr
          [] OTHER -> str(number)

\* ------------------------------------------------------------ the programs
Impls == {"parallel-if", "parallel-match", "async-match", "async-if"}
IsThreaded(i) == i \in {"parallel-if", "parallel-match"}
IsAsync(i) == i \in {"async-match", "async-if"}

fizz_buzz_for_number(i, number) ==
    IF i \in {"parallel-if", "async-if"} THEN fizz_buzz_for_number_if(number)
    ELSE fizz_buzz_for_number_match(number)

\* range() with its stop taken as included
RangeStopIncluded(s, e) == s..(e + 1)

\* range(range_start, range_end + 1)
Range(s, e) == {n \in s..(e + 1) : n < e + 1}

\* -------------------------------------------------- sorted(results, key=...)
\* key=lambda x: int(x) if x.isdigit() else float('inf')
sort_key(x) == IF isdigit(x) THEN [inf |-> FALSE, v |-> int(x)] ELSE [inf |-> TRUE, v |-> 0]

\* a < b on the keys: an int is below inf, inf is not below inf
KeyLess(a, b) == IF a.inf THEN FALSE ELSE (b.inf \/ a.v < b.v)

\* where s[i] stands in the sorted list: after the elements with a smaller
\* key and after the elements with an equal key that stand before it in s
\* (sorted() is stable)
SortedPosition(s, i) ==
    1 + Cardinality({j \in 1..Len(s) :
            \/ KeyLess(sort_key(s[j]), sort_key(s[i]))
            \/ (j < i /\ ~KeyLess(sort_key(s[i]), sort_key(s[j])))})

sorted(s) ==
    [k \in 1..Len(s) |-> s[CHOOSE i \in 1..Len(s) : SortedPosition(s, i) = k]]

\* ------------------------------------------------------------------ state
VARIABLES
    impl,           \* which of the four programs runs
    range_start,    \* argument of the batch call
    range_end,      \* argument of the batch call
    num_workers,    \* max_workers handed to ThreadPoolExecutor
    raises,         \* the inputs for which the transform raises
    pc,             \* position of the caller inside the batch call
    nxt,            \* next num of the submitting dict comprehension
    future_to_num,  \* num -> state of the future submitted for it
    tasks,          \* num -> state of the asyncio task wrapping its coroutine
    num_threads,    \* worker threads of the executor that are alive
    finished,       \* as_completed: futures found finished, not yet yielded;
                    \* asyncio.wait: the completed set, not yet iterated
    pending,        \* as_completed: futures not finished at the first next()
                    \* and not yet yielded
    waiter,         \* as_completed: waiter.finished_futures, in completion order
    results,        \* the results list
    exc,            \* exception propagating out of the call, or "none"
    ret,            \* the returned list
    calls,          \* batch calls started so far
    prev,           \* outcome of the previous call
    number,         \* fizz_buzz_if: the loop variable; the classifier's argument
    stdout,         \* fizz_buzz_if: the lines printed
    returned,       \* fizz_buzz_if: what the call returned
    outputs         \* form of the classifier -> what it returned for number

vars == <<impl, range_start, range_end, num_workers, raises, pc, nxt,
          future_to_num, tasks, num_threads, finished, pending, waiter,
          results, exc, ret, calls, prev, number, stdout, returned, outputs>>

\* the state of the sequential program and of the classifier alone, which the
\* batch programs do not have
aside == <<number, stdout, returned, outputs>>

NotReturned == [none |-> FALSE, value |-> <<"running">>]

args == <<impl, range_start, range_end, num_workers, raises>>

Nums == Range(range_start, range_end)

NoOutcome == [exc |-> "no call", value |-> <<>>]
Outcome == [exc |-> exc, value |-> ret]

Running(f) == {n \in DOMAIN f : f[n] = "running"}
Queued(f) == {n \in DOMAIN f : f[n] = "pending"}
Sleeping(t) == {n \in DOMAIN t : t[n] = "sleeping"}

\* transform invocations that have begun and not ended
InProgress == Cardinality(Running(future_to_num)) + Cardinality(Sleeping(tasks))

Init ==
    /\ impl \in Impls
    /\ range_start \in (0 - MaxNeg)..MaxStart
    /\ range_end \in (range_start - MaxGap)..(range_start + MaxBatch - 1)
    /\ num_workers \in 1..MaxWorkers
    /\ raises \in {{}} \cup {{n} : n \in Range(range_start, range_end)}
    /\ pc = "start"
    /\ nxt = range_start
    /\ future_to_num = [n \in {} |-> "unsubmitted"]
    /\ tasks = [n \in {} |-> "scheduled"]
    /\ num_threads = 0
    /\ finished = {}
    /\ pending = {}
    /\ waiter = <<>>
    /\ results = <<>>
    /\ exc = "none"
    /\ ret = <<>>
    /\ calls = 0
    /\ prev = NoOutcome
    /\ number = 0
    /\ stdout = <<>>
    /\ returned = NotReturned
    /\ outputs = [f \in {} |-> <<>>]

\* the call can be made: first call, or the previous one has ended
CanCall == pc \in {"start", "done", "raised"} /\ calls < MaxCalls

\* ------------------------------------------------- ThreadPoolExecutor
\* _adjust_thread_count without the max_workers test
adjust_thread_count_unbounded(threads, f, max_workers) ==
    IF threads - Cardinality(Running(f)) >= Cardinality(Queued(f)) THEN threads
    ELSE threads + 1

\* executor.submit -> _adjust_thread_count: a thread is added when no idle
\* thread is left for the queued work and fewer than max_workers exist
adjust_thread_count(threads, f, max_workers) ==
    IF threads - Cardinality(Running(f)) >= Cardinality(Queued(f)) THEN threads
    ELSE IF threads < max_workers THEN threads + 1
    ELSE threads

\* a worker thread takes work only when one of the threads is not running work
worker_available(threads, f) == Cardinality(Running(f)) < threads

\* executor.shutdown(wait=False): returns at once
shutdown_nowait(f) == TRUE

\* executor.shutdown(wait=True, cancel_futures=True): the queued work is
\* dropped, only the running work is waited for
shutdown_cancel_futures(f) == \A n \in DOMAIN f : f[n] # "running"

\* executor.shutdown(wait=True) of the with block: returns once every thread
\* has drained the queue and exited
shutdown_joined(f) == \A n \in DOMAIN f : f[n] = "finished"

\* future.result() / task.result(): re-raises what the call raised
result_of(n, bad) == IF n \in bad THEN "raise" ELSE "value"

\* as_completed with pending = fs: the futures finished before the first
\* next() are waited for again
still_pending_all(fs, done) == fs

\* as_completed: pending = fs - finished
still_pending(fs, done) == fs \ done

\* a completion told to the waiter twice
add_result_twice(w, n) == Append(Append(w, n), n)

\* the finished future tells the installed waiter: waiter.add_result(future)
add_result(w, n) == Append(w, n)

\* results.insert(0, ...)
prepend(list, x) == <<x>> \o list

\* results.append(...)
append(list, x) == Append(list, x)

\* with ThreadPoolExecutor(max_workers=num_workers) as executor:
parallel_fizz_buzz ==
    /\ IsThreaded(impl)
    /\ CanCall
    /\ pc' = "submit"
    /\ nxt' = range_start
    /\ future_to_num' = [n \in Nums |-> "unsubmitted"]
    /\ num_threads' = 0
    /\ finished' = {}
    /\ pending' = {}
    /\ waiter' = <<>>
    /\ results' = <<>>
    /\ exc' = "none"
    /\ ret' = <<>>
    /\ calls' = calls + 1
    /\ prev' = IF calls = 0 THEN NoOutcome ELSE Outcome
    /\ UNCHANGED <<aside, args, tasks>>

\* one executor.submit(fizz_buzz_for_number, num) of the dict comprehension
Submit ==
    /\ pc = "submit"
    /\ nxt \in Nums
    /\ future_to_num' = [future_to_num EXCEPT ![nxt] = "pending"]
    /\ num_threads' = adjust_thread_count(num_threads, future_to_num', num_workers)
    /\ nxt' = nxt + 1
    /\ UNCHANGED <<aside, args, pc, tasks, finished, pending, waiter, results, exc,
                   ret, calls, prev>>

\* a worker thread takes the head of the FIFO work queue
WorkerStart(n) ==
    /\ IsThreaded(impl)
    /\ n \in Queued(future_to_num)
    /\ \A m \in Queued(future_to_num) : n <= m
    /\ worker_available(num_threads, future_to_num)
    /\ future_to_num' = [future_to_num EXCEPT ![n] = "running"]
    /\ UNCHANGED <<aside, args, pc, nxt, tasks, num_threads, finished, pending,
                   waiter, results, exc, ret, calls, prev>>

\* the work item ends (result or exception set); an installed waiter is told
WorkerFinish(n) ==
    /\ IsThreaded(impl)
    /\ n \in Running(future_to_num)
    /\ future_to_num' = [future_to_num EXCEPT ![n] = "finished"]
    /\ waiter' = IF pc = "collect" /\ n \in pending THEN add_result(waiter, n) ELSE waiter
    /\ UNCHANGED <<aside, args, pc, nxt, tasks, num_threads, finished, pending,
                   results, exc, ret, calls, prev>>

\* for future in as_completed(future_to_num): the first next() takes the
\* already finished futures and installs the waiter on the rest
AsCompleted ==
    /\ pc = "submit"
    /\ nxt \notin Nums
    /\ finished' = {n \in Nums : future_to_num[n] = "finished"}
    /\ pending' = still_pending(Nums, finished')
    /\ waiter' = <<>>
    /\ pc' = "collect"
    /\ UNCHANGED <<aside, args, nxt, future_to_num, tasks, num_threads, results, exc,
                   ret, calls, prev>>

\* what as_completed may yield next: the finished snapshot in any order
\* (it is a set), then the waiter's futures in completion order
NextYield ==
    IF finished # {} THEN finished
    ELSE IF waiter # <<>> THEN {Head(waiter)}
    ELSE {}

\* one iteration: results.append(future.result())
Collect(n) ==
    /\ pc = "collect"
    /\ n \in NextYield
    /\ finished' = finished \ {n}
    /\ waiter' = IF finished = {} THEN Tail(waiter) ELSE waiter
    /\ pending' = IF finished = {} THEN pending \ {n} ELSE pending
    /\ IF result_of(n, raises) = "raise"
       THEN /\ exc' = "ItemError"
            /\ pc' = "exit_with"
            /\ UNCHANGED results
       ELSE /\ results' = append(results, fizz_buzz_for_number(impl, n))
            /\ UNCHANGED <<exc, pc>>
    /\ UNCHANGED <<aside, args, nxt, future_to_num, tasks, num_threads, ret, calls, prev>>

\* as_completed is exhausted: the for loop ends
CollectEnd ==
    /\ pc = "collect"
    /\ finished = {}
    /\ pending = {}
    /\ pc' = "exit_with"
    /\ UNCHANGED <<aside, args, nxt, future_to_num, tasks, num_threads, finished,
                   pending, waiter, results, exc, ret, calls, prev>>

\* leaving the with block: executor.shutdown(wait=True), then the exception
\* of the body, if any, goes on to the caller
ExitWith ==
    /\ pc = "exit_with"
    /\ shutdown_joined(future_to_num)
    /\ num_threads' = 0
    /\ pc' = IF exc = "none" THEN "return" ELSE "raised"
    /\ UNCHANGED <<aside, args, nxt, future_to_num, tasks, finished, pending, waiter,
                   results, exc, ret, calls, prev>>

\* return sorted(results, key=...)
Return ==
    /\ pc = "return"
    /\ ret' = sorted(results)
    /\ pc' = "done"
    /\ UNCHANGED <<aside, args, nxt, future_to_num, tasks, num_threads, finished,
                   pending, waiter, results, exc, calls, prev>>

\* ------------------------------------------------------------- asyncio
\* asyncio.wait(tasks) rejects an empty collection:
\*   if not fs: raise ValueError('Set of Tasks/Futures is empty.')
\* and otherwise wraps every coroutine in a task with ensure_future. This is
\* asyncio.wait up to Python 3.10; from 3.11 on it refuses bare coroutines
\* with a TypeError and async_fizz_buzz cannot run at all.
wait_rejects(fs) == fs = {}

\* return_when=ALL_COMPLETED: the waiter wakes when no task is left undone
wait_done(t) == \A n \in DOMAIN t : t[n] = "finished"

\* tasks = [...]; completed, _ = await asyncio.wait(tasks)
async_fizz_buzz ==
    /\ IsAsync(impl)
    /\ CanCall
    /\ tasks' = [n \in Nums |-> "scheduled"]
    /\ finished' = {}
    /\ results' = <<>>
    /\ ret' = <<>>
    /\ calls' = calls + 1
    /\ prev' = IF calls = 0 THEN NoOutcome ELSE Outcome
    /\ IF wait_rejects(Nums)
       THEN exc' = "ValueError" /\ pc' = "raised"
       ELSE exc' = "none" /\ pc' = "wait"
    /\ UNCHANGED <<aside, args, nxt, future_to_num, num_threads, pending, waiter>>

\* first step of a task: fizz_buzz_for_number runs up to
\* await asyncio.sleep(0.01) and suspends there
TaskStart(n) ==
    /\ IsAsync(impl)
    /\ pc = "wait"
    /\ n \in DOMAIN tasks
    /\ tasks[n] = "scheduled"
    /\ tasks' = [tasks EXCEPT ![n] = "sleeping"]
    /\ UNCHANGED <<aside, args, pc, nxt, future_to_num, num_threads, finished,
                   pending, waiter, results, exc, ret, calls, prev>>

\* the sleep timer fires: the coroutine resumes and returns or raises.
\* Timers run in a later loop iteration than the ready first steps.
TaskResume(n) ==
    /\ IsAsync(impl)
    /\ pc = "wait"
    /\ n \in Sleeping(tasks)
    /\ \A m \in DOMAIN tasks : tasks[m] # "scheduled"
    /\ tasks' = [tasks EXCEPT ![n] = "finished"]
    /\ UNCHANGED <<aside, args, pc, nxt, future_to_num, num_threads, finished,
                   pending, waiter, results, exc, ret, calls, prev>>

\* asyncio.wait returns (done, pending): completed is the set of all tasks
WaitReturn ==
    /\ pc = "wait"
    /\ wait_done(tasks)
    /\ finished' = DOMAIN tasks
    /\ pc' = "iterate"
    /\ UNCHANGED <<aside, args, nxt, future_to_num, tasks, num_threads, pending,
                   waiter, results, exc, ret, calls, prev>>

\* results = [task.result() for task in completed]: one element of the
\* comprehension; a set is iterated in no particular order
Iterate(n) ==
    /\ pc = "iterate"
    /\ n \in finished
    /\ finished' = finished \ {n}
    /\ IF result_of(n, raises) = "raise"
       THEN /\ exc' = "ItemError"
            /\ pc' = "raised"
            /\ UNCHANGED results
       ELSE /\ results' = append(results, fizz_buzz_for_number(impl, n))
            /\ UNCHANGED <<exc, pc>>
    /\ UNCHANGED <<aside, args, nxt, future_to_num, tasks, num_threads, pending,
                   waiter, ret, calls, prev>>

\* return sorted(results, key=...)
AsyncReturn ==
    /\ pc = "iterate"
    /\ finished = {}
    /\ ret' = sorted(results)
    /\ pc' = "done"
    /\ UNCHANGED <<aside, args, nxt, future_to_num, tasks, num_threads, finished,
                   pending, waiter, results, exc, calls, prev>>

\* -------------------------------------------------------- cancellation
\* Neither function takes a cancel argument. A run is cancelled from outside
\* by an interrupt (Ctrl-C) of the script: KeyboardInterrupt is raised in the
\* main thread where it waits in as_completed, and asyncio.run cancels the
\* main task, which raises CancelledError at its await.

\* the interrupt caught inside the function, the loop left with what it has
swallow_interrupt(e) == "none"

\* the function has no try / except: what is raised in its body leaves it
raise_in_body(e) == e

\* the caller is interrupted while results are outstanding
Cancel ==
    /\ \/ IsThreaded(impl) /\ pc = "collect" /\ finished \cup pending # {}
       \/ IsAsync(impl) /\ pc = "wait"
    /\ exc' = raise_in_body("Cancelled")
    /\ pc' = IF IsThreaded(impl) THEN "exit_with"
             ELSE IF exc' = "none" THEN "iterate" ELSE "raised"
    /\ UNCHANGED <<aside, args, nxt, future_to_num, tasks, num_threads, finished,
                   pending, waiter, results, ret, calls, prev>>

\* ------------------------------------------------------------ behaviours
AllNums == (0 - MaxNeg - MaxGap)..(MaxStart + MaxBatch + 1)

NextNoCancel ==
    \/ parallel_fizz_buzz
    \/ Submit
    \/ \E n \in AllNums : WorkerStart(n)
    \/ \E n \in AllNums : WorkerFinish(n)
    \/ AsCompleted
    \/ \E n \in AllNums : Collect(n)
    \/ CollectEnd
    \/ ExitWith
    \/ Return
    \/ async_fizz_buzz
    \/ \E n \in AllNums : TaskStart(n)
    \/ \E n \in AllNums : TaskResume(n)
    \/ WaitReturn
    \/ \E n \in AllNums : Iterate(n)
    \/ AsyncReturn

Next == NextNoCancel \/ Cancel

Spec == Init /\ [][Next]_vars

\* the runs of a non-empty batch whose transform always returns
LiveInit == Init /\ raises = {} /\ Nums # {}

\* fair scheduling: a step that stays possible is eventually taken
\* of the runs that are not interrupted
LiveSpec == LiveInit /\ [][NextNoCancel]_vars /\ WF_vars(NextNoCancel)

\* ---------------------------------------------------------------- claims
BatchSize == Cardinality(Nums)

\* the outputs in submission order: position p holds the output of start + p
PositionalOrder(i, s, e) ==
    [p \in 1..Cardinality(Range(s, e)) |-> fizz_buzz_for_number(i, s + p - 1)]

IsNumeric(x) == isdigit(x)
IsNonNumeric(x) == ~isdigit(x)

\* C1: for every range with start <= end and every completion order, the
\* returned list has end-start+1 elements and its element at index p is the
\* classification of start+p (as the tests of test-async.py assert for
\* indices 0, 2, 4 and 14 of the range 1..100). Stated for the ranges of
\* positive numbers, where the tests are.
C1_ReturnedInPositionOrder ==
    (pc = "done" /\ 1 <= range_start /\ range_start <= range_end) =>
        /\ Len(ret) = range_end - range_start + 1
        /\ \A p \in 0..(range_end - range_start) :
              ret[p + 1] = fizz_buzz_for_number(impl, range_start + p)

\* C2: the returned list depends on the arguments alone: a repeated call
\* with the same arguments ends as the call before it did, whatever the
\* completion order of either. Stated for the ranges of positive numbers.
C2_RepeatedCallSameOutcome ==
    (/\ pc \in {"done", "raised"} /\ calls >= 2 /\ range_start >= 1
     /\ exc # "Cancelled" /\ prev.exc # "Cancelled") => Outcome = prev

\* C7: for a range of positive inputs the returned list is the
\* numeric outputs in ascending order followed by the Fizz / Buzz / FizzBuzz
\* outputs in submission order, under every completion order.
C7_NonNumericInSubmissionOrder ==
    (pc = "done" /\ range_start >= 1) =>
        ret = SelectSeq(PositionalOrder(impl, range_start, range_end), IsNumeric)
              \o SelectSeq(PositionalOrder(impl, range_start, range_end), IsNonNumeric)

\* C3: when the transform raises for exactly one input, the threaded batch
\* call still ends with a returned list of full length (the item's error
\* carried at its position), not with an exception.
C3_ItemErrorIsolated ==
    (/\ IsThreaded(impl) /\ Cardinality(raises) = 1 /\ pc \in {"done", "raised"}
     /\ exc # "Cancelled") =>
        /\ pc = "done"
        /\ exc = "none"
        /\ Len(ret) = BatchSize

C5_EmptyRangeThreaded ==
    (IsThreaded(impl) /\ range_end < range_start) =>
        /\ exc = "none"
        /\ pc # "raised"
        /\ DOMAIN future_to_num = {}
        /\ num_threads = 0
        /\ InProgress = 0
        /\ results = <<>>
        /\ (pc = "done" => ret = <<>>)

\* the call on an empty range has returned
C5_Witness ==
    /\ IsThreaded(impl)
    /\ range_end < range_start
    /\ pc = "done"
    /\ ret = <<>>

\* C6: async_fizz_buzz(start, end) with end < start returns the empty list
\* and does not end in an error.
C6_EmptyRangeAsync ==
    (IsAsync(impl) /\ range_end < range_start /\ calls >= 1) =>
        /\ exc = "none"
        /\ pc # "raised"
        /\ (pc = "done" => ret = <<>>)

Count(list, x) == Cardinality({i \in 1..Len(list) : list[i] = x})

\* C8: every submitted item contributes exactly one element to the collected
\* results under every completion order: while collecting, each item is
\* either collected, or found finished and waiting to be yielded, or still
\* pending, and never two of these; at return the results are as many as the
\* batch and the returned list is a permutation of the items' outputs.
C8_ExactlyOnceCollection ==
    /\ pc = "collect" =>
          /\ finished \cap pending = {}
          /\ Len(results) + Cardinality(finished) + Cardinality(pending) = BatchSize
    /\ pc = "iterate" => Len(results) + Cardinality(finished) = BatchSize
    /\ pc \in {"return", "done"} => Len(results) = BatchSize
    /\ pc = "done" =>
          /\ Len(ret) = BatchSize
          /\ \A n \in Nums :
                Count(ret, fizz_buzz_for_number(impl, n))
                    = Cardinality({m \in Nums : fizz_buzz_for_number(impl, m)
                                                = fizz_buzz_for_number(impl, n)})

\* every worker had finished before the collector began to wait, and the
\* collector has taken some of their results and still has some to take
C8_Witness ==
    /\ IsThreaded(impl)
    /\ pc = "collect"
    /\ BatchSize >= 3
    /\ pending = {}
    /\ finished # {}
    /\ Len(results) >= 1

\* the batch call is under way
InFlight == pc \in {"submit", "collect", "exit_with", "return", "wait", "iterate"}

\* C9: with a transform that always returns, a non-empty batch call that has
\* begun eventually returns with every item run to its end, and no state of
\* the call is a deadlock, also when the batch exceeds the worker limit.
C9_BatchEventuallyReturns ==
    /\ [](InFlight => ENABLED NextNoCancel)
    /\ (InFlight /\ raises = {} /\ BatchSize >= 1)
         ~> (/\ pc = "done"
             /\ \A n \in DOMAIN future_to_num : future_to_num[n] = "finished"
             /\ \A n \in DOMAIN tasks : tasks[n] = "finished")

\* a batch larger than the worker limit has returned
C9_Witness ==
    /\ IsThreaded(impl)
    /\ raises = {}
    /\ BatchSize > num_workers
    /\ pc = "done"
    /\ Len(ret) = BatchSize

\* C10: when parallel_fizz_buzz hands control back, by return or by an
\* exception out of the collection loop, its pool is torn down: no thread is
\* alive, no work is running or queued; and a call begins with a pool of its
\* own that holds nothing of the call before.
C10_PoolTornDown ==
    /\ (IsThreaded(impl) /\ pc \in {"return", "done", "raised"}) =>
          /\ num_threads = 0
          /\ Running(future_to_num) = {}
          /\ Queued(future_to_num) = {}
          /\ \A n \in Nums : future_to_num[n] = "finished"
    /\ (IsThreaded(impl) /\ pc = "submit" /\ nxt = range_start) =>
          /\ num_threads = 0
          /\ \A n \in Nums : future_to_num[n] = "unsubmitted"

\* an exception left the collection loop before every result was collected,
\* and the call has ended
C10_Witness ==
    /\ IsThreaded(impl)
    /\ pc = "raised"
    /\ exc = "ItemError"
    /\ Len(results) + 1 < BatchSize
    /\ num_threads = 0

batch == <<range_start, range_end, num_workers, raises, nxt, future_to_num,
           tasks, num_threads, finished, pending, waiter, results, exc, ret,
           calls, prev>>

\* range(1, 101)
RangeStop == 101

\* the line print(...) writes for number: print(number) writes str(number)
printed_line(n) ==
    LET is_divisible_by_3 == n % 3 = 0
        is_divisible_by_5 == n % 5 = 0
    IN  IF is_divisible_by_3 /\ is_divisible_by_5 THEN FizzBuzzStr
        ELSE IF is_divisible_by_3 THEN FizzStr
        ELSE IF is_divisible_by_5 THEN BuzzStr
        ELSE str(n)

\* a function body that ends without a return statement returns None
fall_off_end == [none |-> TRUE, value |-> <<>>]

SeqInit ==
    /\ impl = "if"
    /\ pc = "start"
    /\ range_start = 1
    /\ range_end = RangeStop - 1
    /\ num_workers = 1
    /\ raises = {}
    /\ nxt = 1
    /\ future_to_num = [n \in {} |-> "unsubmitted"]
    /\ tasks = [n \in {} |-> "scheduled"]
    /\ num_threads = 0
    /\ finished = {}
    /\ pending = {}
    /\ waiter = <<>>
    /\ results = <<>>
    /\ exc = "none"
    /\ ret = <<>>
    /\ calls = 0
    /\ prev = NoOutcome
    /\ number = 0
    /\ stdout = <<>>
    /\ returned = NotReturned
    /\ outputs = [f \in {} |-> <<>>]

\* fizz_buzz_if(): for number in range(1, 101) begins
fizz_buzz_if ==
    /\ impl = "if"
    /\ pc = "start"
    /\ number' = 1
    /\ pc' = "loop"
    /\ UNCHANGED <<impl, batch, stdout, returned, outputs>>

\* one pass of the loop body: one print
LoopBody ==
    /\ impl = "if"
    /\ pc = "loop"
    /\ number < RangeStop
    /\ stdout' = Append(stdout, printed_line(number))
    /\ number' = number + 1
    /\ UNCHANGED <<impl, batch, pc, returned, outputs>>

\* the range is exhausted and the function body ends
LoopEnd ==
    /\ impl = "if"
    /\ pc = "loop"
    /\ number = RangeStop
    /\ returned' = fall_off_end
    /\ pc' = "done"
    /\ UNCHANGED <<impl, batch, number, stdout, outputs>>

SeqNext == fizz_buzz_if \/ LoopBody \/ LoopEnd

SeqSpec == SeqInit /\ [][SeqNext]_vars

\* the list of classification strings of 1..100
ExpectedList == [i \in 1..(RangeStop - 1) |-> fizz_buzz_for_number_if(i)]

\* C12: fizz_buzz_if() returns to its caller the list of the classification
\* strings of 1..100, element i-1 being the classification of i, numbers as
\* strings (what test.py compares the returned value with).
C12_ReturnsTheList ==
    (impl = "if" /\ pc = "done") =>
        (~returned.none /\ returned.value = ExpectedList)

\* the orders in which n results can be collected
Orders(n) == {p \in [1..n -> 1..n] : \A a, b \in 1..n : p[a] = p[b] => a = b}

\* what the threaded realization can end in on a range with a transform that
\* never raises: the sorted list of its outputs, collected in any order
ThreadedOutcomes(s, e) ==
    LET out == PositionalOrder("parallel-if", s, e)
    IN  {[exc |-> "none", value |-> sorted([k \in 1..Len(out) |-> out[p[k]]])] :
            p \in Orders(Len(out))}

\* C13: the threaded and the cooperative-task realization have the same
\* outcomes on every range, the empty range included: whatever one of them
\* ends in, the threaded one can end in.
C13_SameOutcomes ==
    (pc \in {"done", "raised"} /\ raises = {} /\ exc # "Cancelled") =>
        Outcome \in ThreadedOutcomes(range_start, range_end)

\* x is the decimal string of an integer: digits, with a minus sign before
\* them for a negative one
IsDecimalString(x) ==
    \/ isdigit(x)
    \/ (Len(x) >= 2 /\ x[1] = "-" /\ isdigit(Tail(x)))

DecimalValue(x) == IF x[1] = "-" THEN 0 - IntOfDigits(Tail(x)) ELSE IntOfDigits(x)

\* C14: on every range, those with zero or negative integers included, every
\* output that is the decimal string of an integer stands in the returned list
\* before every Fizz / Buzz / FizzBuzz output, and the decimal strings stand in
\* ascending order of their integer value.
C14_DecimalStringsFirstAscending ==
    pc = "done" =>
        \A i, j \in 1..Len(ret) :
            (i < j /\ IsDecimalString(ret[j])) =>
                /\ IsDecimalString(ret[i])
                /\ DecimalValue(ret[i]) <= DecimalValue(ret[j])

\* C15: when the transform raises for one item, every sibling that is running
\* or queued in the pool is still run to its end, once, before the call hands
\* control back: at the raise every future is finished, and within a call a
\* future never leaves finished nor goes from running back to the queue.
C15_SiblingsRunToCompletion ==
    /\ []((IsThreaded(impl) /\ pc = "raised" /\ exc = "ItemError") =>
            \A n \in Nums : future_to_num[n] = "finished")
    /\ [][calls' = calls =>
            \A n \in DOMAIN future_to_num :
                /\ future_to_num[n] = "finished" => future_to_num'[n] = "finished"
                /\ future_to_num[n] = "running" =>
                      future_to_num'[n] \in {"running", "finished"}]_vars

\* the failure has left the collection loop while one sibling runs and
\* another is still queued
C15_Witness ==
    /\ IsThreaded(impl)
    /\ pc = "exit_with"
    /\ exc = "ItemError"
    /\ Running(future_to_num) # {}
    /\ Queued(future_to_num) # {}

\* the items whose future or task changed state in the step
Stepped ==
    {n \in Nums : n \in DOMAIN future_to_num /\ n \in DOMAIN future_to_num'
                  /\ future_to_num'[n] # future_to_num[n]}
    \cup {n \in Nums : n \in DOMAIN tasks /\ n \in DOMAIN tasks'
                       /\ tasks'[n] # tasks[n]}

\* C16: during a batch run the results list only grows: a step leaves it as
\* it is or appends one output of an item of the batch (a new call starts an
\* empty list), it never holds more than the batch, and a step of a worker
\* (one that moves an item's future or task on) moves one item alone and
\* leaves the list and the collector's position as they are.
C16_ResultsOnlyGrow ==
    /\ [](Len(results) <= BatchSize)
    /\ [][\/ results' = results
          \/ \E n \in Nums : results' = Append(results, fizz_buzz_for_number(impl, n))
          \/ (calls' = calls + 1 /\ results' = <<>>)]_vars
    /\ [][(calls' = calls /\ pc # "submit" /\ Stepped # {}) =>
            /\ Cardinality(Stepped) = 1
            /\ results' = results
            /\ pc' = pc]_vars

\* the collector has appended results while a worker is still running
C16_Witness ==
    /\ IsThreaded(impl)
    /\ pc = "collect"
    /\ Len(results) >= 2
    /\ Running(future_to_num) # {}

\* ------------------------------------------------- the classifier alone
ClassifyInit ==
    /\ impl = "classifier"
    /\ pc = "start"
    /\ number \in (0 - MaxAbs)..MaxAbs
    /\ outputs = [f \in {} |-> <<>>]
    /\ range_start = number
    /\ range_end = number
    /\ num_workers = 1
    /\ raises = {}
    /\ nxt = number
    /\ future_to_num = [n \in {} |-> "unsubmitted"]
    /\ tasks = [n \in {} |-> "scheduled"]
    /\ num_threads = 0
    /\ finished = {}
    /\ pending = {}
    /\ waiter = <<>>
    /\ results = <<>>
    /\ exc = "none"
    /\ ret = <<>>
    /\ calls = 0
    /\ prev = NoOutcome
    /\ stdout = <<>>
    /\ returned = NotReturned

\* fizz_buzz_for_number(number) of parallel-if.py and models/.../async.py
ClassifyIf ==
    /\ impl = "classifier"
    /\ "if" \notin DOMAIN outputs
    /\ outputs' = [f \in DOMAIN outputs \cup {"if"} |->
                     IF f = "if" THEN fizz_buzz_for_number_if(number) ELSE outputs[f]]
    /\ UNCHANGED <<impl, pc, batch, number, stdout, returned>>

\* fizz_buzz_for_number(number) of parallel-match.py and chatGPT/FizzBuzz/async.py
ClassifyMatch ==
    /\ impl = "classifier"
    /\ "match" \notin DOMAIN outputs
    /\ outputs' = [f \in DOMAIN outputs \cup {"match"} |->
                     IF f = "match" THEN fizz_buzz_for_number_match(number)
                     ELSE outputs[f]]
    /\ UNCHANGED <<impl, pc, batch, number, stdout, returned>>

ClassifyNext == ClassifyIf \/ ClassifyMatch

ClassifySpec == ClassifyInit /\ [][ClassifyNext]_vars

\* C17: the if / elif form and the match form of fizz_buzz_for_number agree
\* and are exhaustive on every integer of -MaxAbs .. MaxAbs: each returns
\* FizzBuzz exactly when n is divisible by 3 and by 5, Fizz exactly when by 3
\* only, Buzz exactly when by 5 only, and the decimal string of n otherwise.
C17_ClassifierFormsAgree ==
    impl = "classifier" =>
        /\ \A f \in DOMAIN outputs :
              /\ outputs[f] = FizzBuzzStr <=> (number % 3 = 0 /\ number % 5 = 0)
              /\ outputs[f] = FizzStr <=> (number % 3 = 0 /\ number % 5 # 0)
              /\ outputs[f] = BuzzStr <=> (number % 3 # 0 /\ number % 5 = 0)
              /\ (number % 3 # 0 /\ number % 5 # 0) => outputs[f] = str(number)
        /\ \A f, g \in DOMAIN outputs : outputs[f] = outputs[g]

\* both forms have classified a negative multiple of 3 and of 5
C17_Witness ==
    /\ impl = "classifier"
    /\ DOMAIN outputs = {"if", "match"}
    /\ number < 0
    /\ number % 3 = 0
    /\ number % 5 = 0

====
